---- MODULE Spec2Model ----
(***************************************************************************)
(* infoHUD: the mode-cycling scheduler (infoHUD.py), the frame compositor  *)
(* (display_manager.py), the body generators (image_generator.py) and the  *)
(* data producers (weather_fetcher.py, stock_ticker.py, news_fetcher.py,   *)
(* image_fetcher.py), as one state machine.  One Tick is one iteration of  *)
(* main_loop's `while True`.                                               *)
(*                                                                         *)
(* Python values are modelled as records with uniform fields; a raised     *)
(* exception is the result status "raise".  What the network, the file     *)
(* system and the panel answer on a tick is drawn with \E in the action.   *)
(***************************************************************************)
EXTENDS Integers, Sequences, FiniteSets, TLC

VARIABLES
    ENABLE_IMAGES,       \* infoHUD.py:37
    ENABLE_STOCKS,       \* infoHUD.py:38
    ENABLE_NEWS,         \* infoHUD.py:39
    ENABLE_WEATHER,      \* infoHUD.py:40
    pc,                  \* where main_loop is: "start", "loop", "returned", "crashed"
    display_modes,       \* main_loop's list of enabled modes
    current_mode_index,  \* main_loop's index into display_modes
    weather_data,        \* main_loop's retained weather record
    cache,               \* the weather cache file and its age in seconds
    image_files,         \* ImageFetcher.image_files (fixed at construction)
    current_index,       \* ImageFetcher.current_index
    tick,                \* what the last step (the entry, or an iteration of the loop) did
    last_weather,        \* the record get_weather gave at startup / on the last weather tick with content
    ever,                \* which kinds of effect the process has had so far (see Effects)
    error_log,           \* main_loop's own logger.error lines
    tmp_generated,       \* the files of tmp/generated, each a kind and a timestamp
    now,                 \* the wall clock in seconds, as time.strftime reads it
    written,             \* every file name that was ever written to tmp/generated
    stores,              \* how many stores each kind has had in this run
    fit_call,            \* the arguments of a call of the text fitter
    fitted,              \* what that call returned
    raster,              \* the image handed to convert_to_6color
    converted,           \* what convert_to_6color returned
    forecast_call,       \* the record handed to generate_weather_image, and what the disk does
    forecast_image,      \* what generate_weather_image returned
    news_call,           \* the record handed to generate_news_image, and what the network and the disk do
    news_frame,          \* what generate_news_image returned
    stock_call,          \* what the price API does for each symbol during a fetch_stock_data
    stock_info,          \* what fetch_stock_data returned
    cache_file,          \* the weather cache file of the location and its age in seconds
    weather_got,         \* the last call of get_weather: what it found, was answered and returned
    fetcher,             \* an ImageFetcher: its image_files and its current_index
    fetched_images       \* what the calls of fetcher.fetch_next_image returned, in order

scheduler_vars ==
    <<ENABLE_IMAGES, ENABLE_STOCKS, ENABLE_NEWS, ENABLE_WEATHER, pc,
      display_modes, current_mode_index, weather_data, cache,
      image_files, current_index, tick, last_weather, ever, error_log>>
archive_vars == <<tmp_generated, now, written, stores>>
fit_vars == <<fit_call, fitted>>
quantizer_vars == <<raster, converted>>
forecast_vars == <<forecast_call, forecast_image>>
news_vars == <<news_call, news_frame>>
stock_vars == <<stock_call, stock_info>>
cache_vars == <<cache_file, weather_got>>
fetcher_vars == <<fetcher, fetched_images>>

vars ==
    <<scheduler_vars, archive_vars, fit_vars, quantizer_vars, forecast_vars,
      news_vars, stock_vars, cache_vars, fetcher_vars>>

(***************************************************************************)
(* Bounds of the model.                                                    *)
(***************************************************************************)
\* how many symbols STOCK_SYMBOLS holds in the model (the source lists 10)
NumSymbols == 2
\* how many files assets/images holds at most
MaxImageFiles == 2
\* how many stores of kind "stock" a run of the archive has at most
MaxStores == 15
\* how many stores of each other kind a run of the archive has at most
MaxOtherStores == 1
\* how many words a text handed to the text fitter has at most
MaxWords == 3
\* how many characters a word has at most
MaxWordLen == 3
\* the largest max_font_size handed to the text fitter
TopFontSize == 12
\* how many pixels wide an image handed to the quantizer is at most
MaxRasterWidth == 2
\* how many entries the forecast handed to generate_weather_image has at most
MaxForecastDays == 4
\* how many words the longest summary handed to generate_news_image has
MaxSummaryWords == 30
\* how many symbols the longest list fetch_stock_data is run with on its own has
MaxTickerSymbols == 4
\* how many calls of fetch_next_image an ImageFetcher on its own gets
MaxFetches == 4

(***************************************************************************)
(* Program constants.                                                      *)
(***************************************************************************)
DISPLAY_WIDTH == 600
DISPLAY_HEIGHT == 400
HEADER_HEIGHT == 62
BODY_HEIGHT == DISPLAY_HEIGHT - HEADER_HEIGHT
IMG_WIDTH == 600
IMG_HEIGHT == 338
FONT_SIZE == 26
\* CACHE_EXPIRY = timedelta(hours=1), in seconds
CACHE_EXPIRY == 3600
\* The four *_DISPLAY_TIME settings are read from the environment (defaults 60,
\* 30, 30 and 20 seconds).  The configuration modelled has long, pairwise
\* different dwells, so that the one-hour cache expiry falls within a few ticks.
IMAGE_DISPLAY_TIME == 4800
STOCK_DISPLAY_TIME == 3600
NEWS_DISPLAY_TIME == 2400
WEATHER_DISPLAY_TIME == 1200
\* the .get(current_mode, 10) default of main_loop's sleep table
DEFAULT_SLEEP == 10

Min(a, b) == IF a < b THEN a ELSE b

(***************************************************************************)
(* Weather records.  `current` is the value under the key "current":       *)
(* shape "absent" (no such key), "null" (present but not a mapping, which  *)
(* only a cache file written by something else can hold) or "dict".        *)
(* `forecast` is the number of entries under "forecast", -1 without the    *)
(* key.  NoWeather is Python's None.                                       *)
(***************************************************************************)
NoWeather ==
    [tag |-> "None", current |-> [shape |-> "absent", condition |-> "", temperature |-> ""],
     forecast |-> -1]

WeatherRecord(shape, condition, temperature, n) ==
    [tag |-> "dict",
     current |-> [shape |-> shape, condition |-> condition, temperature |-> temperature],
     forecast |-> n]

\* get_weather's placeholder: {"current": {"condition": "Unavailable", "temperature": "N/A"}}
Placeholder == WeatherRecord("dict", "Unavailable", "N/A", -1)

\* what the weather API may answer in the model (forecast.daily_forecasts[:3]
\* may hold fewer than 3 days)
FetchedRecords ==
    {WeatherRecord("dict", "Sunny", "75", 3),
     WeatherRecord("dict", "Blizzard", "68", 3),
     WeatherRecord("dict", "Sunny", "68", 2)}

\* what a cache file left by something else may hold: a timestamp, three
\* forecast entries and a "current" that is null
ForeignRecords == {WeatherRecord("null", "", "", 3)}

(***************************************************************************)
(* Images.  kind "None" is Python's None; `decodable` is whether the       *)
(* pixel data can be loaded (Image.open is lazy); `quantized` is whether   *)
(* the image went through convert_to_6color.                               *)
(***************************************************************************)
NoImage ==
    [kind |-> "None", name |-> "", w |-> 0, h |-> 0, quantized |-> FALSE, decodable |-> FALSE]

Image(kind, w, h, quantized, decodable) ==
    [kind |-> kind, name |-> "", w |-> w, h |-> h, quantized |-> quantized,
     decodable |-> decodable]

(***************************************************************************)
(* display_manager.py: the compositor.                                     *)
(***************************************************************************)
condition_map ==
    [c \in {"Clear", "Sunny", "Partly cloudy", "Cloudy", "Overcast", "Rain", "Light rain",
            "Heavy rain", "Thunderstorm", "Snow", "Fog", "Haze", "Wind"} |->
        CASE c = "Clear" -> "clear-day.svg"
          [] c = "Sunny" -> "clear-day.svg"
          [] c = "Partly cloudy" -> "cloudy-3-day.svg"
          [] c = "Cloudy" -> "cloudy.svg"
          [] c = "Overcast" -> "cloudy.svg"
          [] c = "Rain" -> "rainy-3.svg"
          [] c = "Light rain" -> "rainy-3-day.svg"
          [] c = "Heavy rain" -> "rainy-3-night.svg"
          [] c = "Thunderstorm" -> "thunderstorms.svg"
          [] c = "Snow" -> "snowy-3.svg"
          [] c = "Fog" -> "fog.svg"
          [] c = "Haze" -> "haze.svg"
          [] c = "Wind" -> "wind.svg"]

_get_weather_icon_path(condition) ==
    IF condition \in DOMAIN condition_map THEN condition_map[condition] ELSE "unknown.svg"

\* a header or body region that was not drawn: all black
BlankHeader == [st |-> "blank", temperature |-> "", condition |-> "", icon |-> ""]
BlankBody == [st |-> "blank", kind |-> "None", w |-> DISPLAY_WIDTH, h |-> BODY_HEIGHT]

\* the header's right-hand side; st = "raise" when the method raises
_generate_header(weather) ==
    IF weather.tag = "None" \/ weather.current.shape = "absent"
    THEN [st |-> "ok", temperature |-> "N/A", condition |-> "Unknown",
          icon |-> _get_weather_icon_path("Unknown")]
    ELSE IF weather.current.shape # "dict"
    THEN [st |-> "raise", temperature |-> "", condition |-> "", icon |-> ""]
    ELSE [st |-> "ok", temperature |-> weather.current.temperature \o "°F",
          condition |-> weather.current.condition,
          icon |-> _get_weather_icon_path(weather.current.condition)]

\* never raises: its own try/except gives a blank body
_generate_body(image) ==
    IF image.kind = "None" THEN BlankBody
    ELSE IF ~image.decodable THEN BlankBody
    ELSE [st |-> "ok", kind |-> image.kind, w |-> DISPLAY_WIDTH, h |-> BODY_HEIGHT]

\* Image.rotate(-90, expand=True)
rotate(frame) == [frame EXCEPT !.w = frame.h, !.h = frame.w]

\* The frame is a new RGB image (Image.new, paste, rotate): whatever the body
\* went through, the frame itself has not been through convert_to_6color.
_generate_table(content, weather) ==
    LET header == _generate_header(weather)
    IN  IF header.st = "raise"
        THEN [w |-> DISPLAY_WIDTH, h |-> DISPLAY_HEIGHT, header |-> BlankHeader,
              body |-> BlankBody, header_raised |-> TRUE, quantized |-> FALSE]
        ELSE rotate([w |-> DISPLAY_WIDTH, h |-> DISPLAY_HEIGHT, header |-> header,
                     body |-> _generate_body(content), header_raised |-> FALSE,
                     quantized |-> FALSE])

\* _cleanup_old_images: f.startswith(image_type) raises TypeError when
\* image_type is None (the directory then holds at least the file just saved)
_cleanup_old_images(image_type) == IF image_type = "None" THEN "raise" ELSE "ok"

\* _save_debug_image; debug_ok: image.save does not raise.  The events are
\* what happened on disk: "store" is the file <image_type>_<timestamp>.png written.
_save_debug_image(image_type, debug_ok) ==
    IF ~debug_ok THEN [st |-> "raise", events |-> <<"store_failed">>]
    ELSE IF _cleanup_old_images(image_type) = "raise"
    THEN [st |-> "raise", events |-> <<"store", "cleanup_failed">>]
    ELSE [st |-> "ok", events |-> <<"store", "cleanup">>]

\* a display_image without its try/except: an exception of the panel leaves it
display_image_raising(content, content_type, weather, debug_ok, sink_ok) ==
    LET final_image == _generate_table(content, weather)
        saved == _save_debug_image(content_type, debug_ok)
    IN  [st |-> IF saved.st = "ok" /\ ~sink_ok THEN "raise" ELSE "ok",
         frame |-> final_image,
         header_arg |-> weather,
         events |-> <<"compose">> \o saved.events
                    \o (IF saved.st = "raise" THEN <<>>
                        ELSE IF sink_ok THEN <<"send">> ELSE <<"send_failed">>),
         debug_name |-> content_type,
         sent |-> saved.st = "ok" /\ sink_ok]

\* a display_image that sends the frame to the panel before it stores the copy
display_image_sending_first(content, content_type, weather, debug_ok, sink_ok) ==
    LET final_image == _generate_table(content, weather)
        saved == _save_debug_image(content_type, debug_ok)
    IN  [st |-> "ok",
         frame |-> final_image,
         header_arg |-> weather,
         events |-> <<"compose">>
                    \o (IF sink_ok THEN <<"send">> \o saved.events ELSE <<"send_failed">>),
         debug_name |-> content_type,
         sent |-> sink_ok]

\* display_image: what it did, in order, and whether the sink got the frame
\* ("send": getbuffer and display were called and returned).  sink_ok: the
\* panel does not raise.  Every exception ends in its `except`: logged, so
\* st, the way the call ends, is always "ok".
display_image(content, content_type, weather, debug_ok, sink_ok) ==
    LET final_image == _generate_table(content, weather)
        saved == _save_debug_image(content_type, debug_ok)
    IN  [st |-> "ok",
         frame |-> final_image,
         header_arg |-> weather,
         events |-> <<"compose">> \o saved.events
                    \o (IF saved.st = "raise" THEN <<>>
                        ELSE IF sink_ok THEN <<"send">> ELSE <<"send_failed">>),
         debug_name |-> content_type,
         sent |-> saved.st = "ok" /\ sink_ok]

(***************************************************************************)
(* The debug archive: the directory tmp/generated, which save_image        *)
(* (image_generator.py) and _save_debug_image (display_manager.py) both    *)
(* write to.  A file <kind>_<timestamp>.png is the record of its kind and  *)
(* its timestamp; the timestamp has a resolution of one second             *)
(* (time.strftime("%Y%m%d-%H%M%S")) and a fixed width, so the order of the *)
(* names of one kind is the order of the timestamps.                       *)
(***************************************************************************)
MAX_IMAGES == 10

ArchiveFile(kind, stamp) == [kind |-> kind, stamp |-> stamp]

\* f.startswith(image_type): none of the kinds is a prefix of another
NameStartsWith(f, image_type) == f.kind = image_type

\* cleanup_old_images / DisplayManager._cleanup_old_images on the directory
\* dir: sorted(..., reverse=True)[MAX_IMAGES:] are the names that have at
\* least MAX_IMAGES greater names of the same prefix
cleanup_old_images(dir, image_type) ==
    LET images == {f \in dir : NameStartsWith(f, image_type)}
        old == {f \in images : Cardinality({g \in images : g.stamp > f.stamp}) >= MAX_IMAGES}
    IN  dir \ old

\* the directory save_image leaves: image.save (which replaces a file of the
\* same name), then cleanup_old_images
save_image_to(dir, image_type, stamp) ==
    cleanup_old_images(dir \cup {ArchiveFile(image_type, stamp)}, image_type)

\* the directory _save_debug_image leaves; for image_type None the file is
\* None_<timestamp>.png and the pruning raises before it removes anything
_save_debug_image_to(dir, image_type, stamp) ==
    IF _cleanup_old_images(image_type) = "raise"
    THEN dir \cup {ArchiveFile(image_type, stamp)}
    ELSE cleanup_old_images(dir \cup {ArchiveFile(image_type, stamp)}, image_type)

(***************************************************************************)
(* weather_fetcher.py.  The cache file is absent, unreadable ("corrupt":   *)
(* not JSON, empty, or without a "timestamp") or holds a record whose      *)
(* timestamp is `age` seconds old.                                         *)
(***************************************************************************)
\* ages above CACHE_EXPIRY all read as "more than an hour"
AgeCap == CACHE_EXPIRY + 1

NoCache == [state |-> "absent", rec |-> NoWeather, age |-> 0]
CorruptCache == [state |-> "corrupt", rec |-> NoWeather, age |-> 0]
CacheOf(rec, age) == [state |-> "ok", rec |-> rec, age |-> age]

\* a cache that is still served when it is exactly one hour old
get_cached_weather_inclusive(c) ==
    IF c.state = "ok" /\ c.age <= CACHE_EXPIRY THEN c.rec ELSE NoWeather

get_cached_weather(c) ==
    IF c.state = "absent" THEN NoWeather
    ELSE IF c.state = "corrupt" THEN NoWeather
    ELSE IF c.age < CACHE_EXPIRY THEN c.rec
    ELSE NoWeather

\* answer: what the API gives now, NoWeather when the request fails (or the
\* cache file cannot be written: the `except` then returns None as well).
\* Returns the record and the cache file it leaves.
fetch_weather(c, answer) ==
    IF answer = NoWeather THEN [data |-> NoWeather, cache |-> c]
    ELSE [data |-> answer, cache |-> CacheOf(answer, 0)]

\* a get_weather that falls back to the expired record when the fetch fails
get_weather_serving_stale(c, answer) ==
    LET cached == get_cached_weather(c)
        fetched == IF cached = NoWeather THEN fetch_weather(c, answer)
                   ELSE [data |-> cached, cache |-> c]
    IN  [data |-> IF fetched.data # NoWeather THEN fetched.data
                  ELSE IF c.state = "ok" THEN c.rec ELSE Placeholder,
         cache |-> fetched.cache,
         from_cache |-> cached # NoWeather]

get_weather(c, answer) ==
    LET cached == get_cached_weather(c)
        fetched == IF cached = NoWeather THEN fetch_weather(c, answer)
                   ELSE [data |-> cached, cache |-> c]
    IN  [data |-> IF fetched.data = NoWeather THEN Placeholder ELSE fetched.data,
         cache |-> fetched.cache,
         from_cache |-> cached # NoWeather]

(***************************************************************************)
(* stock_ticker.py.  Per symbol the API gives a quote, no "close" data, or *)
(* the request raises.                                                     *)
(***************************************************************************)
\* the list of the source, and its first n symbols
TrackedSymbols ==
    <<"RDDT", "TSLA", "MSFT", "NVDA", "TSM", "AMZN", "METV", "META", "CHPT", "TLRY">>
FirstSymbols(n) == SubSeq(TrackedSymbols, 1, n)

STOCK_SYMBOLS == FirstSymbols(NumSymbols)

StockOutcomes == {"quote", "nodata", "exc"}

\* current_price is a number (is_number) or the string "No Data"
StockRecord(symbol, outcome) ==
    IF outcome = "quote"
    THEN [symbol |-> symbol, is_number |-> TRUE, current_price |-> "250.0", change |-> 1]
    ELSE [symbol |-> symbol, is_number |-> FALSE, current_price |-> "No Data", change |-> 0]

\* the function with the list `symbols` for STOCK_SYMBOLS: the try/except is
\* around the whole loop, so an exception at any symbol ends in `return []`
fetch_stock_data_of(symbols, outcomes) ==
    IF \E i \in 1..Len(symbols) : outcomes[i] = "exc"
    THEN <<>>
    ELSE [i \in 1..Len(symbols) |-> StockRecord(symbols[i], outcomes[i])]

fetch_stock_data(outcomes) == fetch_stock_data_of(STOCK_SYMBOLS, outcomes)

(***************************************************************************)
(* image_generator.py.  A generator's result: st "ok" with an image        *)
(* (NoImage for None), or st "raise".                                      *)
(***************************************************************************)
Raised == [st |-> "raise", image |-> NoImage]
Returned(image) == [st |-> "ok", image |-> image]

convert_to_6color(image) == [image EXCEPT !.quantized = TRUE]

\* save_ok: image.save and cleanup_old_images do not raise
save_image(image, image_type, save_ok) ==
    IF save_ok THEN Returned(convert_to_6color(image)) ELSE Raised

generate_stock_image(stock_data, save_ok) ==
    IF stock_data = <<>> THEN Returned(NoImage)
    ELSE IF \E i \in 1..Min(Len(stock_data), 10) : ~stock_data[i].is_number
    THEN Raised
    ELSE save_image(Image("stock", IMG_WIDTH, IMG_HEIGHT, FALSE, TRUE), "stock", save_ok)

\* thumb: "ok", "request_error" (the download fails), "undecodable" (Image.open fails)
ThumbOutcomes == {"ok", "request_error", "undecodable"}
NoNews == [tag |-> "None", has_thumbnail |-> FALSE]
NewsRecord(has_thumbnail) == [tag |-> "dict", has_thumbnail |-> has_thumbnail]

generate_news_image(news_data, thumb, save_ok) ==
    IF news_data.tag = "None" THEN Returned(NoImage)
    ELSE IF news_data.has_thumbnail /\ thumb = "undecodable" THEN Raised
    ELSE save_image(Image("news", DISPLAY_WIDTH, DISPLAY_HEIGHT, FALSE, TRUE), "news", save_ok)

\* its own try/except turns an exception of the rendering or of save_image
\* into None (save_ok: neither raises)
generate_weather_image(weather, save_ok) ==
    IF weather.forecast < 3 THEN Returned(NoImage)
    ELSE LET saved == save_image(Image("weather", IMG_WIDTH, IMG_HEIGHT, FALSE, TRUE),
                                 "weather", save_ok)
         IN  IF saved.st = "raise" THEN Returned(NoImage) ELSE saved

(***************************************************************************)
(* image_generator.py: the text fitter.  A word is the number of its       *)
(* characters, a line the sequence of its words (joined by single spaces), *)
(* a text the sequence of the words text.split() gives.  The font metrics  *)
(* are those of a font whose glyphs, the space included, are font_size     *)
(* wide and font_size high.                                                *)
(***************************************************************************)
\* the floor of both loops: `font_size > 10`
FloorSize == 10

RECURSIVE SumOf(_)
SumOf(seq) == IF seq = <<>> THEN 0 ELSE Head(seq) + SumOf(Tail(seq))

\* the characters of a line: its words and the spaces between them
CharsOf(line) == IF line = <<>> THEN 0 ELSE SumOf(line) + Len(line) - 1

\* font.getsize(line) of the font of size font_size
getsize(line, font_size) ==
    [w |-> CharsOf(line) * font_size, h |-> IF line = <<>> THEN 0 ELSE font_size]

\* the loop of fit_text_to_width, from font_size on
RECURSIVE fit_width_from(_, _, _)
fit_width_from(text, max_width, font_size) ==
    IF getsize(text, font_size).w > max_width /\ font_size > FloorSize
    THEN fit_width_from(text, max_width, font_size - 1)
    ELSE font_size

\* a fitter that goes on below the floor until the text fits
RECURSIVE fit_text_to_width_no_floor(_, _, _)
fit_text_to_width_no_floor(text, max_width, max_font_size) ==
    IF getsize(text, max_font_size).w > max_width /\ max_font_size > 1
    THEN fit_text_to_width_no_floor(text, max_width, max_font_size - 1)
    ELSE [fn |-> "width", lines |-> <<text>>, font_size |-> max_font_size]

\* returns the text (one line) and the size of the font
fit_text_to_width(text, max_width, max_font_size) ==
    [fn |-> "width", lines |-> <<text>>,
     font_size |-> fit_width_from(text, max_width, max_font_size)]

\* the `for word in words` loop of fit_text_to_area from the i-th word on, and
\* the temp_lines.append(line) after it
RECURSIVE wrap_from(_, _, _, _, _, _)
wrap_from(words, i, line, temp_lines, font_size, max_width) ==
    IF i > Len(words) THEN Append(temp_lines, line)
    ELSE LET test_line == Append(line, words[i])
         IN  IF getsize(test_line, font_size).w <= max_width
             THEN wrap_from(words, i + 1, test_line, temp_lines, font_size, max_width)
             ELSE wrap_from(words, i + 1, <<words[i]>>, Append(temp_lines, line),
                            font_size, max_width)

\* temp_lines of one pass of the while loop
wrap(words, font_size, max_width) == wrap_from(words, 1, <<>>, <<>>, font_size, max_width)

\* sum(font.getsize(line)[1] for line in temp_lines)
total_height(temp_lines, font_size) ==
    SumOf([i \in DOMAIN temp_lines |-> getsize(temp_lines[i], font_size).h])

\* the while loop of fit_text_to_area, from font_size on: the accepted lines
\* ([] when the loop ends without a break) and the size of the font
RECURSIVE fit_area_from(_, _, _, _)
fit_area_from(words, max_width, max_height, font_size) ==
    IF font_size > FloorSize
    THEN LET temp_lines == wrap(words, font_size, max_width)
         IN  IF total_height(temp_lines, font_size) <= max_height
             THEN [lines |-> temp_lines, font_size |-> font_size]
             ELSE fit_area_from(words, max_width, max_height, font_size - 1)
    ELSE [lines |-> <<>>, font_size |-> font_size]

\* returns "\n".join(lines) (here: the lines) and the size of the font
fit_text_to_area(words, max_width, max_height, max_font_size) ==
    LET found == fit_area_from(words, max_width, max_height, max_font_size)
    IN  [fn |-> "area", lines |-> found.lines, font_size |-> found.font_size]

(***************************************************************************)
(* image_generator.py: the colour quantizer, pixel by pixel.  A colour is  *)
(* an RGB triple, a raster an image of w x h pixels, row after row.        *)
(* Image.quantize(palette=...) maps each pixel to the index of the palette *)
(* entry nearest to it (squared distance in RGB, the lowest index among    *)
(* equals) after adding the error the pixel before it in the row left      *)
(* behind (error diffusion, simplified to one neighbour).                  *)
(***************************************************************************)
\* a palette that fills the slots after the six colours with grey
putpalette_grey_filler(slot) ==
    CASE slot = 0 -> <<0, 0, 0>>
      [] slot = 1 -> <<255, 255, 255>>
      [] slot = 2 -> <<255, 255, 0>>
      [] slot = 3 -> <<255, 0, 0>>
      [] slot = 4 -> <<0, 0, 255>>
      [] slot = 5 -> <<0, 255, 0>>
      [] OTHER -> <<128, 128, 128>>

\* pal_image.putpalette([...] + [0, 0, 0] * 250): the colour of a slot
putpalette(slot) ==
    CASE slot = 0 -> <<0, 0, 0>>
      [] slot = 1 -> <<255, 255, 255>>
      [] slot = 2 -> <<255, 255, 0>>
      [] slot = 3 -> <<255, 0, 0>>
      [] slot = 4 -> <<0, 0, 255>>
      [] slot = 5 -> <<0, 255, 0>>
      [] OTHER -> <<0, 0, 0>>

PaletteSlots == 0..255
PaletteColors == {putpalette(slot) : slot \in PaletteSlots}

Square(x) == x * x
Distance(c, d) == Square(c[1] - d[1]) + Square(c[2] - d[2]) + Square(c[3] - d[3])
Clip8(x) == IF x < 0 THEN 0 ELSE IF x > 255 THEN 255 ELSE x

\* the least distance from a colour to a palette colour
least_distance(color) ==
    CHOOSE d \in {Distance(c, color) : c \in PaletteColors} :
        \A c \in PaletteColors : d <= Distance(c, color)

\* the lowest slot whose colour is at distance `least` from the colour
slot_at(color, least) ==
    CHOOSE slot \in PaletteSlots :
        /\ Distance(putpalette(slot), color) = least
        /\ \A lower \in 0..(slot - 1) : Distance(putpalette(lower), color) # least

\* the slot of the palette entry nearest to a colour
nearest_slot(color) == slot_at(color, least_distance(color))

\* the error a pixel leaves behind: what was wanted minus what the slot gives
error_of(wanted, slot) == [k \in 1..3 |-> wanted[k] - putpalette(slot)[k]]

\* one row, from its i-th pixel on, `carry` being the error of the pixel before
RECURSIVE quantize_row(_, _, _)
quantize_wanted(row, i, wanted, slot) ==
    <<slot>> \o quantize_row(row, i + 1, error_of(wanted, slot))
quantize_pixel(row, i, wanted) == quantize_wanted(row, i, wanted, nearest_slot(wanted))
quantize_row(row, i, carry) ==
    IF i > Len(row) THEN <<>>
    ELSE quantize_pixel(row, i, [k \in 1..3 |-> Clip8(row[i][k] + carry[k])])

\* the rows of w pixels each, one after the other
RECURSIVE quantize_rows(_, _)
quantize_rows(pixels, w) ==
    IF pixels = <<>> THEN <<>>
    ELSE quantize_row(SubSeq(pixels, 1, w), 1, <<0, 0, 0>>)
         \o quantize_rows(SubSeq(pixels, w + 1, Len(pixels)), w)

\* image.convert("RGB").quantize(palette=pal_image): a "P" image of the same
\* size whose pixels are palette slots
quantize(image) ==
    [w |-> image.w, h |-> image.h, pixels |-> quantize_rows(image.pixels, image.w)]

(***************************************************************************)
(* generate_weather_image, column by column.  A forecast entry is its      *)
(* "date" and its "moon_phase" ("" when the key is missing or empty); the  *)
(* call is the record (has_forecast: it has the key "forecast"), whether   *)
(* _load_svg_icon finds the sunrise and the sunset icon, and whether       *)
(* save_image works.                                                       *)
(***************************************************************************)
num_columns == 3
col_width == (IMG_WIDTH - 80) \div num_columns
col_spacing == 20
table_start_x == (IMG_WIDTH - ((col_width * num_columns) + (col_spacing * (num_columns - 1)))) \div 2

\* weather_data["forecast"][:3], each entry with the x_pos of its column
forecast_columns(forecast) ==
    [i \in 1..Min(Len(forecast), num_columns) |->
        [date |-> forecast[i].date,
         x_pos |-> table_start_x + ((i - 1) * (col_width + col_spacing))]]

\* the body of the loop raises for an entry: sunrise_x / sunset_x is unbound
\* when the icon was not loaded, and "".split()[0] is an IndexError
column_raises(call, day) ==
    \/ ~call.sunrise_icon
    \/ ~call.sunset_icon
    \/ day.moon_phase = ""

\* the record of the call as generate_weather_image (above) reads it
forecast_record(call) ==
    WeatherRecord("dict", "Sunny", "75", IF call.has_forecast THEN Len(call.forecast) ELSE -1)

\* what generate_weather_image returns: None, or the image with its columns
generate_weather_columns(call) ==
    LET columns == forecast_columns(call.forecast)
        rendered == /\ \A i \in DOMAIN columns : ~column_raises(call, call.forecast[i])
                    /\ call.save_ok
        made == generate_weather_image(forecast_record(call), rendered)
    IN  IF made.image.kind = "None" THEN [st |-> "None", columns |-> <<>>]
        ELSE [st |-> "image", columns |-> columns]

(***************************************************************************)
(* generate_news_image with its texts.  The call is the record's title and *)
(* summary (as words), whether it has a thumbnail_url, what the download   *)
(* of the thumbnail does, and whether save_image works.                    *)
(***************************************************************************)
padding == 20
image_size == [w |-> 250, h |-> 150]

\* the headline as fit_text_to_width returns it
news_headline(call) == fit_text_to_width(call.title, DISPLAY_WIDTH - (2 * padding), FONT_SIZE * 2)

\* draw.textsize(fitted_headline, font=headline_font)[1], then the top of the
\* thumbnail and of the summary
image_y_position(call) == padding + getsize(call.title, news_headline(call).font_size).h + 10

summary_x_start == padding + image_size.w + 20
max_summary_width == DISPLAY_WIDTH - summary_x_start - padding
max_summary_height(call) == DISPLAY_HEIGHT - image_y_position(call) - padding

\* the summary as fit_text_to_area returns it
news_summary(call) ==
    fit_text_to_area(call.summary, max_summary_width, max_summary_height(call), FONT_SIZE - 6)

\* what generate_news_image returns (st "image") with what it drew, or that
\* it raises (st "raise")
generate_news_frame(call) ==
    LET made == generate_news_image(NewsRecord(call.has_thumbnail), call.thumb, call.save_ok)
        headline == news_headline(call)
        summary == news_summary(call)
    IN  IF made.st = "raise"
        THEN [st |-> "raise", headline |-> <<>>, headline_size |-> 0, summary |-> <<>>,
              summary_size |-> 0, thumbnail |-> FALSE]
        ELSE [st |-> "image", headline |-> headline.lines, headline_size |-> headline.font_size,
              summary |-> summary.lines, summary_size |-> summary.font_size,
              thumbnail |-> call.has_thumbnail /\ call.thumb = "ok"]

(***************************************************************************)
(* image_fetcher.py.                                                       *)
(***************************************************************************)
ImageFileNames == <<"a.png", "b.png", "c.png", "d.png">>

\* photo: "ok", "truncated" (opens, pixel data cannot be loaded), "unopenable"
PhotoOutcomes == {"ok", "truncated", "unopenable"}

\* a fetcher whose index stops at the last file instead of wrapping
fetch_next_image_no_wrap(files, index, photo) ==
    IF files = <<>> THEN [st |-> "ok", image |-> NoImage, index |-> index]
    ELSE [st |-> IF photo = "unopenable" THEN "raise" ELSE "ok",
          image |-> IF photo = "unopenable" THEN NoImage
                    ELSE [Image("image", 800, 600, FALSE, photo = "ok")
                             EXCEPT !.name = files[index + 1]],
          index |-> Min(index + 1, Len(files) - 1)]

\* _get_image_files: the image files of the directory, sorted by name
\* (ImageFileNames lists the names in their order)
_get_image_files(listdir) == SelectSeq(ImageFileNames, LAMBDA f : f \in listdir)

fetch_next_image(files, index, photo) ==
    IF files = <<>> THEN [st |-> "ok", image |-> NoImage, index |-> index]
    ELSE [st |-> IF photo = "unopenable" THEN "raise" ELSE "ok",
          image |-> IF photo = "unopenable" THEN NoImage
                    ELSE [Image("image", 800, 600, FALSE, photo = "ok")
                             EXCEPT !.name = files[index + 1]],
          index |-> (index + 1) % Len(files)]

(***************************************************************************)
(* infoHUD.py.  env is what the outside answers during one tick:           *)
(*   stock (per-symbol outcomes), news (a NewsRecord or NoNews), thumb,    *)
(*   photo, weather (the API's answer), save_ok (the generator's archive   *)
(*   write), debug_ok (the compositor's archive write), sink_ok (panel).   *)
(***************************************************************************)
\* fetch_and_prepare_content's result: the returned tuple (len 2 or 3), or
\* st = "raise"; with the cache file and fetcher index it leaves and the
\* producers it called
Prepared(len, content, content_type, weather, c, index, calls) ==
    [st |-> "ok", len |-> len, content |-> content, content_type |-> content_type,
     weather |-> weather, cache |-> c, index |-> index, calls |-> calls]

Unprepared(c, index, calls) ==
    [st |-> "raise", len |-> 0, content |-> NoImage, content_type |-> "None",
     weather |-> NoWeather, cache |-> c, index |-> index, calls |-> calls]

NoContent(c, index, calls) == Prepared(2, NoImage, "None", NoWeather, c, index, calls)

prepare_stock(c, index, env) ==
    LET stock_data == fetch_stock_data(env.stock)
        stock_image == generate_stock_image(stock_data, env.save_ok)
        calls == <<"fetch_stock_data">>
    IN  IF stock_data = <<>> THEN NoContent(c, index, calls)
        ELSE IF stock_image.st = "raise" THEN Unprepared(c, index, calls)
        ELSE IF stock_image.image.kind = "None" THEN NoContent(c, index, calls)
        ELSE Prepared(2, stock_image.image, "stock", NoWeather, c, index, calls)

prepare_news(c, index, env) ==
    LET news_data == env.news
        news_image == generate_news_image(news_data, env.thumb, env.save_ok)
        calls == <<"fetch_news">>
    IN  IF news_data.tag = "None" THEN NoContent(c, index, calls)
        ELSE IF news_image.st = "raise" THEN Unprepared(c, index, calls)
        ELSE IF news_image.image.kind = "None" THEN NoContent(c, index, calls)
        ELSE Prepared(2, news_image.image, "news", NoWeather, c, index, calls)

prepare_image(c, index, env) ==
    LET raw_image == fetch_next_image(image_files, index, env.photo)
        calls == <<"fetch_next_image">>
    IN  IF raw_image.st = "raise" THEN Unprepared(c, raw_image.index, calls)
        ELSE IF raw_image.image.kind = "None" THEN NoContent(c, raw_image.index, calls)
        ELSE Prepared(2, raw_image.image, "image", NoWeather, c, raw_image.index, calls)

prepare_weather(c, index, env) ==
    LET got == get_weather(c, env.weather)
        weather_image == generate_weather_image(got.data, env.save_ok)
        calls == <<"get_weather">>
    IN  IF weather_image.image.kind = "None" THEN NoContent(got.cache, index, calls)
        ELSE Prepared(3, weather_image.image, "weather", got.data, got.cache, index, calls)

\* a scheduler that re-resolves the weather on every tick, whatever the mode
fetch_and_prepare_content_resolving(mode, c, index, env) ==
    LET got == get_weather(c, env.weather)
        rest == IF mode = "stock" /\ ENABLE_STOCKS THEN prepare_stock(got.cache, index, env)
                ELSE IF mode = "news" /\ ENABLE_NEWS THEN prepare_news(got.cache, index, env)
                ELSE IF mode = "image" /\ ENABLE_IMAGES THEN prepare_image(got.cache, index, env)
                ELSE NoContent(got.cache, index, <<>>)
    IN  IF mode = "weather" /\ ENABLE_WEATHER THEN prepare_weather(c, index, env)
        ELSE [rest EXCEPT !.calls = <<"get_weather">> \o @]

fetch_and_prepare_content(mode, c, index, env) ==
    IF mode = "stock" /\ ENABLE_STOCKS THEN prepare_stock(c, index, env)
    ELSE IF mode = "news" /\ ENABLE_NEWS THEN prepare_news(c, index, env)
    ELSE IF mode = "image" /\ ENABLE_IMAGES THEN prepare_image(c, index, env)
    ELSE IF mode = "weather" /\ ENABLE_WEATHER THEN prepare_weather(c, index, env)
    ELSE NoContent(c, index, <<>>)

\* main_loop's list of enabled modes, in the order of its four appends
EnabledModes ==
    (IF ENABLE_IMAGES THEN <<"image">> ELSE <<>>)
    \o (IF ENABLE_STOCKS THEN <<"stock">> ELSE <<>>)
    \o (IF ENABLE_NEWS THEN <<"news">> ELSE <<>>)
    \o (IF ENABLE_WEATHER THEN <<"weather">> ELSE <<>>)

\* the sleep table of main_loop: {...}.get(mode, 10)
display_time(mode) ==
    CASE mode = "image" -> IMAGE_DISPLAY_TIME
      [] mode = "stock" -> STOCK_DISPLAY_TIME
      [] mode = "news" -> NEWS_DISPLAY_TIME
      [] mode = "weather" -> WEATHER_DISPLAY_TIME
      [] OTHER -> DEFAULT_SLEEP

\* a loop that advances the index before it looks up the sleep time
sleep_time_after_advance(modes, index) == display_time(modes[((index + 1) % Len(modes)) + 1])

\* the seconds main_loop sleeps at the end of the tick that selected modes[index]
sleep_time(modes, index) == display_time(modes[index + 1])

\* a loop whose index stops at the last mode instead of wrapping
next_index_no_wrap(modes, index) == Min(index + 1, Len(modes) - 1)

\* the index main_loop goes on with
next_index(modes, index) == (index + 1) % Len(modes)

\* a loop that forgets the record on every tick that returned no weather
retained_weather_dropped(result, weather) ==
    IF result.len = 3 THEN result.weather ELSE NoWeather

\* a loop that keeps the record whether or not weather is enabled
retained_weather_kept_when_disabled(result, weather) ==
    IF result.len = 3 THEN result.weather ELSE weather

\* the record main_loop keeps (and hands to display_image) after the fetch
retained_weather(result, weather) ==
    IF result.len = 3 THEN result.weather
    ELSE IF ENABLE_WEATHER THEN weather ELSE NoWeather

\* a main_loop that fetches the initial weather before it looks at the modes
main_loop_entry_fetch_first(modes, c, answer) ==
    LET got == get_weather(c, answer)
    IN  IF modes = <<>>
        THEN [pc |-> "returned", weather |-> got.data, cache |-> got.cache,
              calls |-> <<"get_weather">>,
              errors |-> <<"No display modes enabled! Check .env settings.">>]
        ELSE [pc |-> "loop", weather |-> got.data, cache |-> got.cache,
              calls |-> <<"get_weather">>, errors |-> <<>>]

\* main_loop up to its `while True`: modes is the list it built, answer what
\* the weather API gives.  With no mode it logs the error and returns.
main_loop_entry(modes, c, answer) ==
    IF modes = <<>>
    THEN [pc |-> "returned", weather |-> NoWeather, cache |-> c, calls |-> <<>>,
          errors |-> <<"No display modes enabled! Check .env settings.">>]
    ELSE LET got == get_weather(c, answer)
         IN  [pc |-> "loop", weather |-> got.data, cache |-> got.cache,
              calls |-> <<"get_weather">>, errors |-> <<>>]

Range(seq) == {seq[i] : i \in DOMAIN seq}

\* The kinds of effect a step has: "producer" (a data producer was called),
\* "compose" (a frame was composed), "archive" (a file was written to
\* tmp/generated), "sink" (getbuffer/display was called).
Effects(calls, events, content_type) ==
    (IF calls # <<>> THEN {"producer"} ELSE {})
    \cup (IF "compose" \in Range(events) THEN {"compose"} ELSE {})
    \cup (IF "store" \in Range(events) \/ content_type \in {"stock", "news", "weather"}
          THEN {"archive"} ELSE {})
    \cup (IF Range(events) \cap {"send", "send_failed"} # {} THEN {"sink"} ELSE {})

\* the cache file's timestamp is `seconds` older
Aged(c, seconds) == [c EXCEPT !.age = Min(AgeCap, c.age + seconds)]

NoDisplay ==
    [st |-> "ok",
     frame |-> [w |-> 0, h |-> 0, header |-> BlankHeader, body |-> BlankBody,
                header_raised |-> FALSE, quantized |-> FALSE],
     header_arg |-> NoWeather, events |-> <<>>, debug_name |-> "None", sent |-> FALSE]

NoTick ==
    [st |-> "none", mode |-> "None", index |-> 0, len |-> 0, content_type |-> "None",
     content |-> NoImage, calls |-> <<>>, called_display |-> FALSE, display |-> NoDisplay,
     sleep |-> 0]

Env(stock, news, thumb, photo, weather, save_ok, debug_ok, sink_ok) ==
    [stock |-> stock, news |-> news, thumb |-> thumb, photo |-> photo, weather |-> weather,
     save_ok |-> save_ok, debug_ok |-> debug_ok, sink_ok |-> sink_ok]

AllQuotes == [i \in 1..NumSymbols |-> "quote"]

(***************************************************************************)
(* The values of the variables of a component that is not running.         *)
(***************************************************************************)
ArchiveKinds == {"stock", "None"}
NoStores == [kind \in ArchiveKinds |-> 0]
NoFitCall == [words |-> <<>>, max_width |-> 0, max_height |-> 0, max_font_size |-> 0]
NotFitted == [fn |-> "none", lines |-> <<>>, font_size |-> 0]
NoRaster == [w |-> 0, h |-> 0, pixels |-> <<>>]
NoForecastCall ==
    [has_forecast |-> FALSE, forecast |-> <<>>, sunrise_icon |-> TRUE, sunset_icon |-> TRUE,
     save_ok |-> TRUE]
NotRendered == [st |-> "none", columns |-> <<>>]
NoNewsCall ==
    [title |-> <<>>, summary |-> <<>>, has_thumbnail |-> FALSE, thumb |-> "ok", save_ok |-> TRUE]
NotGenerated ==
    [st |-> "none", headline |-> <<>>, headline_size |-> 0, summary |-> <<>>,
     summary_size |-> 0, thumbnail |-> FALSE]
NoStockCall == <<>>
NotFetched == [st |-> "none", info |-> <<>>]
NotAsked == [st |-> "none", found |-> NoCache, answer |-> NoWeather, data |-> NoWeather,
             fetched |-> FALSE]
NoFetcher == [image_files |-> <<>>, current_index |-> 0]

ArchiveIdle == tmp_generated = {} /\ now = 0 /\ written = {} /\ stores = NoStores
FitIdle == fit_call = NoFitCall /\ fitted = NotFitted
QuantizerIdle == raster = NoRaster /\ converted = NoRaster
ForecastIdle == forecast_call = NoForecastCall /\ forecast_image = NotRendered
NewsIdle == news_call = NoNewsCall /\ news_frame = NotGenerated
StockIdle == stock_call = NoStockCall /\ stock_info = NotFetched
CacheIdle == cache_file = NoCache /\ weather_got = NotAsked
FetcherIdle == fetcher = NoFetcher /\ fetched_images = <<>>

(***************************************************************************)
(* The state machine.                                                      *)
(***************************************************************************)
\* the cache file the process finds: none, an unreadable one, one it wrote
\* itself (just now, or more than an hour ago), or one written by something else
InitialCaches ==
    {NoCache, CorruptCache}
    \cup {CacheOf(WeatherRecord("dict", "Sunny", "75", 3), a) : a \in {0, AgeCap}}
    \cup {CacheOf(r, 0) : r \in ForeignRecords}

Init ==
    /\ ENABLE_IMAGES \in BOOLEAN
    /\ ENABLE_STOCKS \in BOOLEAN
    /\ ENABLE_NEWS \in BOOLEAN
    /\ ENABLE_WEATHER \in BOOLEAN
    /\ pc = "start"
    /\ display_modes = <<>>
    /\ current_mode_index = 0
    /\ weather_data = NoWeather
    /\ cache \in InitialCaches
    /\ image_files \in {SubSeq(ImageFileNames, 1, n) : n \in 0..MaxImageFiles}
    /\ current_index = 0
    /\ tick = NoTick
    /\ last_weather = NoWeather
    /\ ever = {}
    /\ error_log = <<>>
    /\ ArchiveIdle /\ FitIdle /\ QuantizerIdle /\ ForecastIdle
    /\ NewsIdle /\ StockIdle /\ CacheIdle /\ FetcherIdle

\* main_loop from its first line to the top of the loop
Start ==
    /\ pc = "start"
    /\ \E answer \in FetchedRecords \cup {NoWeather} :
        LET entry == main_loop_entry(EnabledModes, cache, answer)
        IN  /\ display_modes' = EnabledModes
            /\ pc' = entry.pc
            /\ current_mode_index' = 0
            /\ weather_data' = entry.weather
            /\ last_weather' = entry.weather
            /\ cache' = entry.cache
            /\ ever' = ever \cup Effects(entry.calls, <<>>, "None")
            /\ error_log' = error_log \o entry.errors
            /\ tick' = [NoTick EXCEPT !.st = "start", !.calls = entry.calls]
    /\ UNCHANGED <<ENABLE_IMAGES, ENABLE_STOCKS, ENABLE_NEWS, ENABLE_WEATHER,
                   image_files, current_index>>
    /\ UNCHANGED <<archive_vars, fit_vars, quantizer_vars, forecast_vars,
                   news_vars, stock_vars, cache_vars, fetcher_vars>>

\* what display_image meets: both the archive write and the panel work, the
\* archive write raises (the panel is then never reached), or the panel raises
DisplayOutcomes == {"ok", "debug_fails", "sink_fails"}

\* one iteration of main_loop's `while True` with the selected mode `mode`
Tick(mode, env) ==
    /\ pc = "loop"
    /\ display_modes[current_mode_index + 1] = mode
    /\ \E result \in {fetch_and_prepare_content(mode, cache, current_index, env)} :
        IF result.st = "raise"
        THEN /\ pc' = "crashed"
             /\ tick' = [NoTick EXCEPT !.st = "crashed", !.mode = mode,
                                       !.index = current_mode_index,
                                       !.calls = result.calls]
             /\ cache' = result.cache
             /\ current_index' = result.index
             /\ ever' = ever \cup Effects(result.calls, <<>>, "None")
             /\ UNCHANGED <<current_mode_index, weather_data, last_weather>>
        ELSE \E weather \in {retained_weather(result, weather_data)},
                sleep \in {sleep_time(display_modes, current_mode_index)} :
             \E shown \in {display_image(result.content, result.content_type, weather,
                                         env.debug_ok, env.sink_ok)} :
                /\ pc' = IF shown.st = "raise" THEN "crashed" ELSE "loop"
                /\ tick' = [st |-> IF shown.st = "raise" THEN "crashed" ELSE "done",
                            mode |-> mode, index |-> current_mode_index,
                            len |-> result.len, content_type |-> result.content_type,
                            content |-> result.content,
                            calls |-> result.calls, called_display |-> TRUE,
                            display |-> shown,
                            sleep |-> IF shown.st = "raise" THEN 0 ELSE sleep]
                /\ weather_data' = weather
                /\ last_weather' = IF mode = "weather" /\ result.content_type # "None"
                                   THEN result.weather ELSE last_weather
                /\ current_mode_index' = IF shown.st = "raise" THEN current_mode_index
                                         ELSE next_index(display_modes, current_mode_index)
                /\ cache' = IF shown.st = "raise" THEN result.cache
                            ELSE Aged(result.cache, sleep)
                /\ current_index' = result.index
                /\ ever' = ever \cup Effects(result.calls, shown.events, result.content_type)
    /\ UNCHANGED <<ENABLE_IMAGES, ENABLE_STOCKS, ENABLE_NEWS, ENABLE_WEATHER,
                   display_modes, image_files, error_log>>
    /\ UNCHANGED <<archive_vars, fit_vars, quantizer_vars, forecast_vars,
                   news_vars, stock_vars, cache_vars, fetcher_vars>>

TickImage ==
    /\ pc = "loop"
    /\ display_modes[current_mode_index + 1] = "image"
    /\ \E photo \in PhotoOutcomes, d \in DisplayOutcomes :
           Tick("image", Env(AllQuotes, NoNews, "ok", photo, NoWeather, TRUE,
                             d # "debug_fails", d # "sink_fails"))

TickStock ==
    /\ pc = "loop"
    /\ display_modes[current_mode_index + 1] = "stock"
    /\ \E stock \in [1..NumSymbols -> StockOutcomes], save_ok \in BOOLEAN, d \in DisplayOutcomes :
           Tick("stock", Env(stock, NoNews, "ok", "ok", NoWeather, save_ok,
                             d # "debug_fails", d # "sink_fails"))

TickNews ==
    /\ pc = "loop"
    /\ display_modes[current_mode_index + 1] = "news"
    /\ \E news \in {NoNews, NewsRecord(FALSE), NewsRecord(TRUE)}, thumb \in ThumbOutcomes,
          save_ok \in BOOLEAN, d \in DisplayOutcomes :
           Tick("news", Env(AllQuotes, news, thumb, "ok", NoWeather, save_ok,
                            d # "debug_fails", d # "sink_fails"))

TickWeather ==
    /\ pc = "loop"
    /\ display_modes[current_mode_index + 1] = "weather"
    /\ \E weather \in FetchedRecords \cup {NoWeather}, save_ok \in BOOLEAN, d \in DisplayOutcomes :
           Tick("weather", Env(AllQuotes, NoNews, "ok", "ok", weather, save_ok,
                               d # "debug_fails", d # "sink_fails"))

Next == Start \/ TickImage \/ TickStock \/ TickNews \/ TickWeather

Spec == Init /\ [][Next]_vars

(***************************************************************************)
(* The debug archive on its own: any sequence of stores, by save_image     *)
(* (of kind "stock" here) and by _save_debug_image (which display_image    *)
(* also calls with the kind None), each reading the clock zero or one      *)
(* second after the store before it.  The directory may hold files of      *)
(* another kind ("news") from the start.                                   *)
(***************************************************************************)
SchedulerIdle ==
    /\ ENABLE_IMAGES = FALSE /\ ENABLE_STOCKS = FALSE
    /\ ENABLE_NEWS = FALSE /\ ENABLE_WEATHER = FALSE
    /\ pc = "start" /\ display_modes = <<>> /\ current_mode_index = 0
    /\ weather_data = NoWeather /\ cache = NoCache
    /\ image_files = <<>> /\ current_index = 0
    /\ tick = NoTick /\ last_weather = NoWeather /\ ever = {} /\ error_log = <<>>

\* the files n stores of one kind, a second apart, leave in an empty directory
EarlierFiles(kind, n) == {ArchiveFile(kind, stamp) : stamp \in 1..n}

\* what an earlier run may have left in the directory: nothing, the files of
\* ten news ticks, or the None_ files of ten ticks without content
EarlierDirectories ==
    {{}, EarlierFiles("news", MAX_IMAGES), EarlierFiles("None", MAX_IMAGES)}

ArchiveInit ==
    /\ SchedulerIdle /\ FitIdle /\ QuantizerIdle /\ ForecastIdle
    /\ NewsIdle /\ StockIdle /\ CacheIdle /\ FetcherIdle
    /\ tmp_generated \in EarlierDirectories
    /\ written = tmp_generated
    /\ now = Cardinality(tmp_generated)
    /\ stores = NoStores

MaxStoresOf(kind) == IF kind = "stock" THEN MaxStores ELSE MaxOtherStores

\* the bookkeeping of one store of `kind` that left the directory `dir`
Stored(kind, stamp, dir) ==
    /\ now' = stamp
    /\ tmp_generated' = dir
    /\ written' = written \cup {ArchiveFile(kind, stamp)}
    /\ stores' = [stores EXCEPT ![kind] = @ + 1]
    /\ UNCHANGED <<scheduler_vars, fit_vars, quantizer_vars, forecast_vars,
                   news_vars, stock_vars, cache_vars, fetcher_vars>>

\* save_image(image, kind)
SaveImage ==
    \E kind \in {"stock"}, elapsed \in 0..1 :
        /\ stores[kind] < MaxStoresOf(kind)
        /\ Stored(kind, now + elapsed, save_image_to(tmp_generated, kind, now + elapsed))

\* _save_debug_image(image, kind)
SaveDebugImage ==
    \E kind \in ArchiveKinds, elapsed \in 0..1 :
        /\ stores[kind] < MaxStoresOf(kind)
        /\ Stored(kind, now + elapsed, _save_debug_image_to(tmp_generated, kind, now + elapsed))

ArchiveNext == SaveImage \/ SaveDebugImage

ArchiveSpec == ArchiveInit /\ [][ArchiveNext]_vars

(***************************************************************************)
(* The text fitter on its own: one call of fit_text_to_width or of         *)
(* fit_text_to_area with arguments drawn from the bounded sets.            *)
(***************************************************************************)
Texts == UNION {[1..n -> 1..MaxWordLen] : n \in 0..MaxWords}
FitWidths == {15, 40, 80}
FitHeights == {11, 25, 40}
FontSizes == (FloorSize - 1)..TopFontSize

FitInit ==
    /\ SchedulerIdle /\ ArchiveIdle /\ QuantizerIdle /\ ForecastIdle
    /\ NewsIdle /\ StockIdle /\ CacheIdle /\ FetcherIdle
    /\ fit_call \in [words : Texts, max_width : FitWidths, max_height : FitHeights,
                     max_font_size : FontSizes]
    /\ fitted = NotFitted

FitTextToWidth ==
    /\ fitted = NotFitted
    /\ fitted' = fit_text_to_width(fit_call.words, fit_call.max_width, fit_call.max_font_size)
    /\ UNCHANGED <<fit_call, scheduler_vars, archive_vars, quantizer_vars, forecast_vars,
                   news_vars, stock_vars, cache_vars, fetcher_vars>>

FitTextToArea ==
    /\ fitted = NotFitted
    /\ fitted' = fit_text_to_area(fit_call.words, fit_call.max_width, fit_call.max_height,
                                  fit_call.max_font_size)
    /\ UNCHANGED <<fit_call, scheduler_vars, archive_vars, quantizer_vars, forecast_vars,
                   news_vars, stock_vars, cache_vars, fetcher_vars>>

FitNext == FitTextToWidth \/ FitTextToArea

FitSpec == FitInit /\ [][FitNext]_vars

(***************************************************************************)
(* The quantizer on its own: one call of convert_to_6color on an image of  *)
(* a few pixels, among them colours the generators draw with (the sky blue *)
(* of the weather columns, the grey of the news summary).                  *)
(***************************************************************************)
SourceColors == {<<0, 0, 0>>, <<255, 255, 255>>, <<135, 206, 235>>, <<200, 200, 200>>}
RasterHeights == {1, 2}

Rasters ==
    UNION {[w : {w}, h : {h}, pixels : [1..(w * h) -> SourceColors]] :
               w \in 1..MaxRasterWidth, h \in RasterHeights}

QuantizerInit ==
    /\ SchedulerIdle /\ ArchiveIdle /\ FitIdle /\ ForecastIdle
    /\ NewsIdle /\ StockIdle /\ CacheIdle /\ FetcherIdle
    /\ raster \in Rasters
    /\ converted = NoRaster

ConvertTo6Color ==
    /\ converted = NoRaster
    /\ converted' = quantize(raster)
    /\ UNCHANGED <<raster, scheduler_vars, archive_vars, fit_vars, forecast_vars,
                   news_vars, stock_vars, cache_vars, fetcher_vars>>

QuantizerNext == ConvertTo6Color

QuantizerSpec == QuantizerInit /\ [][QuantizerNext]_vars

(***************************************************************************)
(* generate_weather_image on its own: one call with a forecast of up to    *)
(* MaxForecastDays entries.                                                *)
(***************************************************************************)
ForecastDays ==
    {[date |-> "Monday", moon_phase |-> "FULL_MOON"],
     [date |-> "Tuesday", moon_phase |-> "NEW_MOON"],
     [date |-> "Wednesday", moon_phase |-> ""]}

Forecasts == UNION {[1..n -> ForecastDays] : n \in 0..MaxForecastDays}

ForecastInit ==
    /\ SchedulerIdle /\ ArchiveIdle /\ FitIdle /\ QuantizerIdle
    /\ NewsIdle /\ StockIdle /\ CacheIdle /\ FetcherIdle
    /\ \E has_forecast \in BOOLEAN :
        forecast_call \in [has_forecast : {has_forecast},
                           forecast : IF has_forecast THEN Forecasts ELSE {<<>>},
                           sunrise_icon : BOOLEAN, sunset_icon : BOOLEAN, save_ok : BOOLEAN]
    /\ forecast_image = NotRendered

GenerateWeatherImage ==
    /\ forecast_image = NotRendered
    /\ forecast_image' = generate_weather_columns(forecast_call)
    /\ UNCHANGED <<forecast_call, scheduler_vars, archive_vars, fit_vars, quantizer_vars,
                   news_vars, stock_vars, cache_vars, fetcher_vars>>

ForecastNext == GenerateWeatherImage

ForecastSpec == ForecastInit /\ [][ForecastNext]_vars

(***************************************************************************)
(* generate_news_image on its own: one call with a record that has a title *)
(* and a summary.                                                          *)
(***************************************************************************)
\* a title that fits at the first size, one that fits at a smaller size, and
\* one that does not fit at the floor
NewsTitles == {<<5, 4>>, <<7, 7, 7>>, <<10, 10, 10, 10, 10, 10>>}

\* a sentence, a paragraph, and the text of an article (fetch_news falls back
\* to the feed's full text when the summarizer fails)
NewsSummaries ==
    {<<3, 4, 5, 2, 6>>, [i \in 1..16 |-> 8], [i \in 1..MaxSummaryWords |-> 26]}

NewsInit ==
    /\ SchedulerIdle /\ ArchiveIdle /\ FitIdle /\ QuantizerIdle /\ ForecastIdle
    /\ StockIdle /\ CacheIdle /\ FetcherIdle
    /\ news_call \in [title : NewsTitles, summary : NewsSummaries, has_thumbnail : BOOLEAN,
                      thumb : ThumbOutcomes, save_ok : BOOLEAN]
    /\ news_frame = NotGenerated

GenerateNewsImage ==
    /\ news_frame = NotGenerated
    /\ news_frame' = generate_news_frame(news_call)
    /\ UNCHANGED <<news_call, scheduler_vars, archive_vars, fit_vars, quantizer_vars,
                   forecast_vars, stock_vars, cache_vars, fetcher_vars>>

NewsNext == GenerateNewsImage

NewsSpec == NewsInit /\ [][NewsNext]_vars

(***************************************************************************)
(* fetch_stock_data on its own: one call with a list of 1..MaxTickerSymbols *)
(* symbols (the list is "configurable"), the price API answering each      *)
(* symbol with a quote, with no "close" data, or with an exception.        *)
(***************************************************************************)
StockInit ==
    /\ SchedulerIdle /\ ArchiveIdle /\ FitIdle /\ QuantizerIdle /\ ForecastIdle
    /\ NewsIdle /\ CacheIdle /\ FetcherIdle
    /\ stock_call \in UNION {[1..n -> StockOutcomes] : n \in 1..MaxTickerSymbols}
    /\ stock_info = NotFetched

FetchStockData ==
    /\ stock_info = NotFetched
    /\ stock_info' = [st |-> "returned",
                      info |-> fetch_stock_data_of(FirstSymbols(Len(stock_call)), stock_call)]
    /\ UNCHANGED <<stock_call, scheduler_vars, archive_vars, fit_vars, quantizer_vars,
                   forecast_vars, news_vars, cache_vars, fetcher_vars>>

StockNext == FetchStockData

StockSpec == StockInit /\ [][StockNext]_vars

(***************************************************************************)
(* weather_fetcher.py on its own: calls of get_weather for one location,   *)
(* with time passing between them.  The cache file is at first absent,     *)
(* unreadable, or one written by something else; a fetch that succeeds     *)
(* writes it with the timestamp of that moment.                            *)
(***************************************************************************)
\* the ages at which the file is looked at: just written, a second old, a
\* second short of the hour, the hour, and more
CacheAges == {0, 1, CACHE_EXPIRY - 1, CACHE_EXPIRY, AgeCap}

CacheInit ==
    /\ SchedulerIdle /\ ArchiveIdle /\ FitIdle /\ QuantizerIdle /\ ForecastIdle
    /\ NewsIdle /\ StockIdle /\ FetcherIdle
    /\ cache_file \in {NoCache, CorruptCache} \cup {CacheOf(r, 0) : r \in ForeignRecords}
    /\ weather_got = NotAsked

GetWeather ==
    /\ \E answer \in FetchedRecords \cup {NoWeather} :
        LET got == get_weather(cache_file, answer)
        IN  /\ weather_got' = [st |-> "returned", found |-> cache_file, answer |-> answer,
                               data |-> got.data, fetched |-> ~got.from_cache]
            /\ cache_file' = got.cache
    /\ UNCHANGED <<scheduler_vars, archive_vars, fit_vars, quantizer_vars,
                   forecast_vars, news_vars, stock_vars, fetcher_vars>>

\* time passes: the timestamp in the file gets older
Elapse ==
    /\ cache_file.state = "ok"
    /\ \E age \in CacheAges :
        /\ age > cache_file.age
        /\ cache_file' = Aged(cache_file, age - cache_file.age)
    /\ UNCHANGED weather_got
    /\ UNCHANGED <<scheduler_vars, archive_vars, fit_vars, quantizer_vars,
                   forecast_vars, news_vars, stock_vars, fetcher_vars>>

CacheNext == GetWeather \/ Elapse

CacheSpec == CacheInit /\ [][CacheNext]_vars

(***************************************************************************)
(* An ImageFetcher on its own: constructed over a directory of up to       *)
(* MaxImageFiles image files, then up to MaxFetches calls of               *)
(* fetch_next_image, each file opening or not.                             *)
(***************************************************************************)
FetcherInit ==
    /\ SchedulerIdle /\ ArchiveIdle /\ FitIdle /\ QuantizerIdle /\ ForecastIdle
    /\ NewsIdle /\ StockIdle /\ CacheIdle
    /\ \E listdir \in SUBSET Range(ImageFileNames) :
        /\ Cardinality(listdir) <= MaxImageFiles
        /\ fetcher = [image_files |-> _get_image_files(listdir), current_index |-> 0]
    /\ fetched_images = <<>>

FetchNextImage ==
    /\ Len(fetched_images) < MaxFetches
    /\ \E photo \in PhotoOutcomes :
        LET raw_image == fetch_next_image(fetcher.image_files, fetcher.current_index, photo)
        IN  /\ fetcher' = [fetcher EXCEPT !.current_index = raw_image.index]
            /\ fetched_images' = Append(fetched_images,
                                        [st |-> raw_image.st, image |-> raw_image.image])
    /\ UNCHANGED <<scheduler_vars, archive_vars, fit_vars, quantizer_vars,
                   forecast_vars, news_vars, stock_vars, cache_vars>>

FetcherNext == FetchNextImage

FetcherSpec == FetcherInit /\ [][FetcherNext]_vars

(***************************************************************************)
(* Vocabulary of the properties.                                           *)
(***************************************************************************)
\* the configured dwell of each mode
Dwell ==
    [image |-> IMAGE_DISPLAY_TIME, stock |-> STOCK_DISPLAY_TIME,
     news |-> NEWS_DISPLAY_TIME, weather |-> WEATHER_DISPLAY_TIME]

\* the producer each mode asks
Producer ==
    [image |-> "fetch_next_image", stock |-> "fetch_stock_data",
     news |-> "fetch_news", weather |-> "get_weather"]

ModeEnabled(mode) ==
    CASE mode = "image" -> ENABLE_IMAGES
      [] mode = "stock" -> ENABLE_STOCKS
      [] mode = "news" -> ENABLE_NEWS
      [] mode = "weather" -> ENABLE_WEATHER
      [] OTHER -> FALSE

\* the enabled modes in the fixed order image, stock, news, weather
CyclicOrder == SelectSeq(<<"image", "stock", "news", "weather">>, ModeEnabled)

\* the last step was an iteration of the loop that ran to its sleep
TickDone == tick.st = "done"
\* ... whose fetch_and_prepare_content returned (None, None)
ContentUnavailable == TickDone /\ tick.content_type = "None"
TickEvents == Range(tick.display.events)
Frame == tick.display.frame

(***************************************************************************)
(* C1.  On a tick whose content is unavailable no frame reaches the        *)
(* display sink and no debug copy is written, while the index advances and *)
(* the dwell sleep elapses.                                                *)
(* The code calls display_image(None, None, weather_data) all the same: a  *)
(* frame is composed and written as None_<timestamp>.png; the panel is not *)
(* reached only because the pruning of "None" files raises TypeError.      *)
(***************************************************************************)
C1_NoFrameWhenContentUnavailable ==
    ContentUnavailable =>
        /\ TickEvents \cap {"store", "send", "send_failed"} = {}
        /\ current_mode_index = (tick.index + 1) % Len(display_modes)
        /\ tick.sleep = Dwell[tick.mode]

(***************************************************************************)
(* C2.  No runtime error ends the scheduling loop: the loop stops only     *)
(* when no mode is enabled.                                                *)
(* fetch_and_prepare_content and main_loop catch nothing, so an exception  *)
(* of a generator or of Image.open ends main_loop.                         *)
(***************************************************************************)
C2_OnlyConfigurationStopsTheLoop ==
    pc \notin {"start", "loop"} => (pc = "returned" /\ display_modes = <<>>)

(***************************************************************************)
(* C3.  The modes are selected in cyclic order over the enabled modes in   *)
(* the order image, stock, news, weather: the index starts at 0, every     *)
(* iteration that runs to its sleep selects display_modes[index] and       *)
(* leaves (index + 1) mod len, content or not, the index stays in range,   *)
(* and only the selected (enabled) mode's producer is called.              *)
(***************************************************************************)
C3_CyclicModeOrder ==
    /\ pc \in {"loop", "crashed"} =>
        /\ display_modes = CyclicOrder
        /\ current_mode_index \in 0..(Len(display_modes) - 1)
    /\ (pc = "loop" /\ tick.st = "start") => current_mode_index = 0
    /\ tick.st \in {"done", "crashed"} =>
        /\ tick.mode = display_modes[tick.index + 1]
        /\ ModeEnabled(tick.mode)
        /\ Range(tick.calls) = {Producer[tick.mode]}
    /\ TickDone => current_mode_index = (tick.index + 1) % Len(display_modes)

\* modes [stock, weather]: the weather tick (index 1), without content, wraps to 0
C3_Witness ==
    /\ display_modes = <<"stock", "weather">>
    /\ ContentUnavailable
    /\ tick.index = 1
    /\ current_mode_index = 0

(***************************************************************************)
(* C4.  The sleep that ends an iteration is the configured dwell of the    *)
(* mode selected on that iteration (not of the mode the index moved to),   *)
(* also when the content was unavailable or the display call failed.       *)
(***************************************************************************)
C4_SleepIsDwellOfSelectedMode ==
    TickDone => tick.sleep = Dwell[tick.mode]

\* an image tick followed by a stock tick, the panel raising
C4_Witness ==
    /\ TickDone
    /\ tick.mode = "image"
    /\ display_modes[current_mode_index + 1] = "stock"
    /\ "send_failed" \in TickEvents
    /\ tick.sleep = IMAGE_DISPLAY_TIME

(***************************************************************************)
(* C5.  With no mode enabled main_loop logs the error once and returns     *)
(* without entering the loop: no producer is called (the initial weather   *)
(* fetch included), no frame is composed, archived or sent, ever.          *)
(***************************************************************************)
C5_NoModesNoEffects ==
    CyclicOrder = <<>> =>
        /\ pc \in {"start", "returned"}
        /\ ever = {}
        /\ tick.calls = <<>>
        /\ ~tick.called_display
        /\ weather_data = NoWeather
        /\ Len(error_log) = (IF pc = "returned" THEN 1 ELSE 0)

C5_Witness == pc = "returned" /\ Len(error_log) = 1 /\ tick.st = "start"

(***************************************************************************)
(* C6.  With weather enabled, on every non-weather tick the record handed  *)
(* to display_image for the header is the one get_weather gave at startup  *)
(* or on the most recent weather tick that had content (last_weather).     *)
(***************************************************************************)
C6_HeaderGetsRetainedWeather ==
    (TickDone /\ ENABLE_WEATHER /\ tick.mode # "weather") =>
        /\ tick.display.header_arg = last_weather
        /\ weather_data = last_weather

\* a stock tick whose header shows a record fetched on an earlier weather
\* tick, while the cache file already holds a later one (two forecast days)
C6_Witness ==
    /\ TickDone /\ ENABLE_WEATHER /\ tick.mode = "stock"
    /\ tick.display.header_arg = WeatherRecord("dict", "Blizzard", "68", 3)
    /\ cache.rec = WeatherRecord("dict", "Sunny", "68", 2)

(***************************************************************************)
(* C7.  As stated: on every tick, whichever mode is active, the scheduler  *)
(* re-resolves the weather record through get_weather.                     *)
(***************************************************************************)
C7_WeatherResolvedEveryTick ==
    tick.st \in {"done", "crashed"} => "get_weather" \in Range(tick.calls)

(***************************************************************************)
(* C7, amended.  get_weather is called once at startup and on exactly the  *)
(* ticks whose mode is weather; on a tick of another mode it is not        *)
(* called.                                                                 *)
(***************************************************************************)
C7_WeatherResolvedOnWeatherTicksOnly ==
    /\ (tick.st = "start" /\ pc = "loop") => tick.calls = <<"get_weather">>
    /\ tick.st \in {"done", "crashed"} =>
        ("get_weather" \in Range(tick.calls) <=> tick.mode = "weather")

\* weather enabled, a stock tick composed its header without a get_weather call
C7_Witness ==
    /\ TickDone /\ ENABLE_WEATHER /\ tick.mode = "stock"
    /\ tick.calls = <<"fetch_stock_data">>
    /\ Frame.header.st = "ok"

(***************************************************************************)
(* C8.  When no usable weather is available (no record, or get_weather's   *)
(* placeholder after a failed fetch) the header shows temperature "N/A"    *)
(* and condition "Unknown" with the unknown icon, and does not raise.      *)
(* For the placeholder the code formats "N/A" with the unit: "N/A°F",      *)
(* and the condition is "Unavailable".                                     *)
(***************************************************************************)
C8_HeaderWithoutWeather ==
    (tick.called_display /\ tick.display.header_arg \in {NoWeather, Placeholder}) =>
        /\ ~Frame.header_raised
        /\ Frame.header.temperature = "N/A"
        /\ Frame.header.condition = "Unknown"
        /\ Frame.header.icon = "unknown.svg"

(***************************************************************************)
(* C9.  Every frame _generate_table returns is 400 wide and 600 high, also *)
(* when it caught a rendering exception.                                   *)
(* Its `except` returns a DISPLAY_WIDTH x DISPLAY_HEIGHT image, unrotated. *)
(***************************************************************************)
C9_FrameIsPortrait ==
    tick.called_display => (Frame.w = DISPLAY_HEIGHT /\ Frame.h = DISPLAY_WIDTH)

(***************************************************************************)
(* C10.  Header and body have a fault boundary each: the body region is    *)
(* what _generate_body gives whatever the header did, and the header       *)
(* region is what _generate_header gives (blank when it raised) whatever   *)
(* the body did.                                                           *)
(* _generate_header has no try/except: its exception is caught by          *)
(* _generate_table, which gives up the body too.                           *)
(***************************************************************************)
C10_SubStepFaultBoundaries ==
    tick.called_display =>
        LET header == _generate_header(tick.display.header_arg)
        IN  /\ Frame.body = _generate_body(tick.content)
            /\ Frame.header = (IF header.st = "raise" THEN BlankHeader ELSE header)

(***************************************************************************)
(* C11.  After any sequence of stores, for every kind the files whose name *)
(* starts with the kind are at most 10 and are exactly the most recent     *)
(* names ever written for that kind; and 15 stores of kind "stock" (into   *)
(* an empty directory, nothing else stored) leave exactly 10 files and     *)
(* have deleted 5.                                                         *)
(* For the kind None, which display_image passes on a tick without         *)
(* content, the pruning raises and nothing is ever deleted; and two stores *)
(* of one kind within the same second write the same file, so 15 stores    *)
(* may leave fewer than 15 names.                                          *)
(***************************************************************************)
FilesOf(dir, kind) == {f \in dir : f.kind = kind}

\* the n greatest names of a set of names of one kind
MostRecent(names, n) == {f \in names : Cardinality({g \in names : g.stamp > f.stamp}) < n}

C11_ArchiveKeepsTenMostRecent ==
    /\ \A kind \in ArchiveKinds \cup {"news"} :
        /\ Cardinality(FilesOf(tmp_generated, kind)) <= MAX_IMAGES
        /\ FilesOf(tmp_generated, kind) = MostRecent(FilesOf(written, kind), MAX_IMAGES)
    /\ (stores = [NoStores EXCEPT !["stock"] = 15] /\ FilesOf(written, "stock") = written) =>
        /\ Cardinality(FilesOf(tmp_generated, "stock")) = 10
        /\ Cardinality(FilesOf(written, "stock") \ tmp_generated) = 5

(***************************************************************************)
(* C12.  A failure of the debug archive (the write of the frame file or    *)
(* the pruning) is logged and not raised, and the frame composed on that   *)
(* tick still goes to the display sink (stated for the ticks that have     *)
(* content).                                                               *)
(* _save_debug_image runs inside display_image's try, before getbuffer:    *)
(* its exception is caught by the same `except`, which skips the panel.    *)
(***************************************************************************)
ArchiveFailed == TickEvents \cap {"store_failed", "cleanup_failed"} # {}
SinkCalled == TickEvents \cap {"send", "send_failed"} # {}

C12_ArchiveFailureDoesNotStopTheFrame ==
    (tick.called_display /\ tick.content_type # "None" /\ ArchiveFailed) =>
        /\ tick.st = "done"
        /\ pc = "loop"
        /\ SinkCalled

(***************************************************************************)
(* C13.  When the panel raises (getbuffer or display), display_image logs  *)
(* and returns: the tick completes, the panel was called once (no retry),  *)
(* the index has advanced and the retained weather record is the one the   *)
(* tick resolved, exactly as after a successful display, and the loop      *)
(* goes on.                                                                *)
(***************************************************************************)
IsSinkCall(event) == event \in {"send", "send_failed"}

C13_SinkFailureIsLoggedOnly ==
    (tick.called_display /\ "send_failed" \in TickEvents) =>
        /\ tick.st = "done"
        /\ pc = "loop"
        /\ tick.display.st = "ok"
        /\ ~tick.display.sent
        /\ Len(SelectSeq(tick.display.events, IsSinkCall)) = 1
        /\ current_mode_index = (tick.index + 1) % Len(display_modes)
        /\ weather_data = (IF tick.len = 3 THEN last_weather ELSE tick.display.header_arg)
        /\ tick.sleep = Dwell[tick.mode]

\* modes [news, weather]: the panel raises on a weather tick that resolved a
\* new record; the record is kept and the index wraps to the news mode
C13_Witness ==
    /\ TickDone
    /\ "send_failed" \in TickEvents
    /\ display_modes = <<"news", "weather">>
    /\ tick.mode = "weather"
    /\ tick.len = 3
    /\ weather_data = WeatherRecord("dict", "Blizzard", "68", 3)
    /\ current_mode_index = 0

(***************************************************************************)
(* Vocabulary of the text fitter's properties.                             *)
(***************************************************************************)
\* the single-line width of the text of the call at a size
LineWidth(font_size) == getsize(fit_call.words, font_size).w
FitsWidth(font_size) == LineWidth(font_size) <= fit_call.max_width

\* the greedy wrapping of the text of the call at a size, and whether its
\* total height is within max_height
WrappedAt(font_size) == wrap(fit_call.words, font_size, fit_call.max_width)
FitsHeight(font_size) ==
    total_height(WrappedAt(font_size), font_size) <= fit_call.max_height

\* the words of a sequence of lines, in order
RECURSIVE WordsOf(_)
WordsOf(lines) == IF lines = <<>> THEN <<>> ELSE Head(lines) \o WordsOf(Tail(lines))

\* the size fit_text_to_width is to return for a max_font_size from the floor
\* up: the largest size that fits, the floor if none does
WidthSizeIsLargestFit ==
    /\ fitted.font_size \in FloorSize..fit_call.max_font_size
    /\ \/ /\ FitsWidth(fitted.font_size)
          /\ \A larger \in (fitted.font_size + 1)..fit_call.max_font_size : ~FitsWidth(larger)
       \/ /\ fitted.font_size = FloorSize
          /\ \A size \in FloorSize..fit_call.max_font_size : ~FitsWidth(size)

C15_FloorWrappingWhenNothingFits ==
    (/\ fitted.fn = "area"
     /\ fit_call.max_font_size >= FloorSize
     /\ \A size \in FloorSize..fit_call.max_font_size : ~FitsHeight(size)) =>
        /\ fitted.font_size = FloorSize
        /\ fitted.lines = WrappedAt(FloorSize)
        /\ WordsOf(fitted.lines) = fit_call.words

(***************************************************************************)
(* C16.  The lines fit_text_to_area returns hold whole words only, and     *)
(* their words, line after line, are the words of the text in order        *)
(* (stated for a max_font_size from the floor up).                         *)
(* A line is a sequence of whole words by construction of wrap.  When no   *)
(* size is accepted the returned text is empty: all words are lost.        *)
(***************************************************************************)
C16_WrappingKeepsTheWords ==
    (fitted.fn = "area" /\ fit_call.max_font_size >= FloorSize) =>
        WordsOf(fitted.lines) = fit_call.words

(***************************************************************************)
(* C17.  When fit_text_to_area accepts a size, it is the largest size      *)
(* from max_font_size down whose greedy wrapping is within max_height, the *)
(* text returned is that wrapping, and no line of it is empty or wider     *)
(* than max_width.                                                         *)
(* A word wider than max_width is put on a line of its own, which is then  *)
(* too wide; when it is the first word of its text the (empty) line before *)
(* it is appended too.                                                     *)
(***************************************************************************)
C17_GreedyWrappingWithinWidth ==
    (fitted.fn = "area" /\ fitted.lines # <<>> /\ fit_call.words # <<>>) =>
        /\ FitsHeight(fitted.font_size)
        /\ \A larger \in (fitted.font_size + 1)..fit_call.max_font_size : ~FitsHeight(larger)
        /\ fitted.lines = WrappedAt(fitted.font_size)
        /\ \A i \in DOMAIN fitted.lines :
            /\ fitted.lines[i] # <<>>
            /\ getsize(fitted.lines[i], fitted.font_size).w <= fit_call.max_width

(***************************************************************************)
(* C18.  convert_to_6color returns an image of exactly the dimensions of   *)
(* its input in which every pixel is a slot of the palette whose colour is *)
(* one of black, white, yellow, red, blue, green; the palette holds these  *)
(* six in the slots 0..5 in that order and black in every other slot.      *)
(***************************************************************************)
SixColors ==
    <<(<<0, 0, 0>>), (<<255, 255, 255>>), (<<255, 255, 0>>),
      (<<255, 0, 0>>), (<<0, 0, 255>>), (<<0, 255, 0>>)>>

C18_QuantizedToSixColors ==
    converted # NoRaster =>
        /\ converted.w = raster.w
        /\ converted.h = raster.h
        /\ Len(converted.pixels) = raster.w * raster.h
        /\ \A p \in DOMAIN converted.pixels :
            /\ converted.pixels[p] \in PaletteSlots
            /\ putpalette(converted.pixels[p]) \in Range(SixColors)
        /\ \A slot \in 0..5 : putpalette(slot) = SixColors[slot + 1]
        /\ \A slot \in PaletteSlots \ (0..5) : putpalette(slot) = SixColors[1]

\* a 2 x 2 image of sky blue and grey pixels, none of them a palette colour
C18_Witness ==
    /\ converted # NoRaster
    /\ raster.w = 2 /\ raster.h = 2
    /\ Range(raster.pixels) = {<<135, 206, 235>>, <<200, 200, 200>>}
    /\ Cardinality(Range(converted.pixels)) > 1

(***************************************************************************)
(* C19.  Every frame handed to the panel (getbuffer/display) has been      *)
(* through convert_to_6color after its last modification.                  *)
(* Only the stock, news and weather bodies are quantized, in save_image,   *)
(* before the compositor resizes them and pastes them under the header; a  *)
(* photo is never quantized; the frame display_image passes to getbuffer   *)
(* is the RGB image _generate_table built.                                 *)
(***************************************************************************)
C19_SinkGetsQuantizedFrames ==
    (tick.called_display /\ SinkCalled) => Frame.quantized

(***************************************************************************)
(* C20.  generate_weather_image returns None whenever the record has no    *)
(* forecast or fewer than 3 entries, and with 3 or more entries it renders *)
(* exactly the first three, one column each, in order (left to right).     *)
(* With 3 or more entries the image is still None when the body of the     *)
(* column loop raises: `sunrise_x` (`sunset_x`) is assigned only if the    *)
(* icon was loaded and used in any case, and an entry without a moon phase *)
(* raises IndexError; the function's `except` returns None.                *)
(***************************************************************************)
C20_FirstThreeForecastDays ==
    forecast_image # NotRendered =>
        IF ~forecast_call.has_forecast \/ Len(forecast_call.forecast) < 3
        THEN forecast_image.st = "None"
        ELSE /\ forecast_image.st = "image"
             /\ Len(forecast_image.columns) = 3
             /\ \A i \in 1..3 : forecast_image.columns[i].date = forecast_call.forecast[i].date
             /\ \A i \in 1..2 : forecast_image.columns[i].x_pos < forecast_image.columns[i + 1].x_pos

(***************************************************************************)
(* C21.  For every news record with a title and a summary (and an archive  *)
(* that takes the image), generate_news_image returns an image with the    *)
(* headline and the summary drawn, whatever happens to the thumbnail; the  *)
(* thumbnail is there only if it was downloaded and decoded.               *)
(* The `except` around the download names requests' RequestException only: *)
(* bytes that Image.open cannot identify raise out of the function.  And a *)
(* summary that fits at none of the sizes 20..11 is drawn as "" (C15).     *)
(***************************************************************************)
C21_NewsFrameWhateverTheThumbnail ==
    (news_frame # NotGenerated /\ news_call.save_ok) =>
        /\ news_frame.st = "image"
        /\ news_frame.headline = <<news_call.title>>
        /\ WordsOf(news_frame.summary) = news_call.summary
        /\ news_frame.thumbnail => (news_call.has_thumbnail /\ news_call.thumb = "ok")

(***************************************************************************)
(* C22.  fetch_stock_data returns the empty list only when every symbol    *)
(* failed, and otherwise one record per configured symbol in the order of  *)
(* the configuration: the quote for a symbol that has one, the "No Data"   *)
(* placeholder for a symbol without data or whose request raised.          *)
(* The try/except is around the whole `for` loop: an exception at one      *)
(* symbol discards the records of all and returns [].                      *)
(***************************************************************************)
TotalFailure == \A i \in DOMAIN stock_call : stock_call[i] # "quote"

OneRecordPerSymbol ==
    /\ Len(stock_info.info) = Len(stock_call)
    /\ \A i \in DOMAIN stock_call :
        /\ stock_info.info[i].symbol = FirstSymbols(Len(stock_call))[i]
        /\ stock_info.info[i].is_number = (stock_call[i] = "quote")
        /\ stock_call[i] # "quote" => stock_info.info[i].current_price = "No Data"

C22_OneRecordPerSymbol ==
    stock_info # NotFetched =>
        \/ stock_info.info = <<>> /\ TotalFailure
        \/ OneRecordPerSymbol

(***************************************************************************)
(* C23.  The cache is valid for exactly one hour (3600 seconds) from its   *)
(* timestamp: a get_weather that finds it less than an hour old returns    *)
(* the cached record and fetches nothing; one that finds it an hour old or *)
(* older attempts a fetch and returns what the fetch gave (the placeholder *)
(* if it failed), not the cached record.                                   *)
(***************************************************************************)
OneHour == 60 * 60
Asked == weather_got.st = "returned"
FoundRecord == weather_got.found.state = "ok"
Refetched == IF weather_got.answer = NoWeather THEN Placeholder ELSE weather_got.answer

C23_CacheValidForOneHour ==
    (Asked /\ FoundRecord) =>
        IF weather_got.found.age < OneHour
        THEN weather_got.data = weather_got.found.rec /\ ~weather_got.fetched
        ELSE weather_got.fetched /\ weather_got.data = Refetched

\* a record the process fetched itself is found exactly one hour later, and
\* the call fetches again and returns the new record
C23_Witness ==
    /\ Asked /\ FoundRecord
    /\ weather_got.found.rec \in FetchedRecords
    /\ weather_got.found.age = OneHour
    /\ weather_got.fetched
    /\ weather_got.data # weather_got.found.rec
    /\ weather_got.data \in FetchedRecords

(***************************************************************************)
(* C24.  get_weather never returns None (and has no way to raise): it      *)
(* returns the cached record if that is less than an hour old, else the    *)
(* record just fetched, else the placeholder with condition "Unavailable"; *)
(* in particular an expired cache is not served when the fetch fails.      *)
(***************************************************************************)
C24_CacheElseFetchElsePlaceholder ==
    Asked =>
        /\ weather_got.data # NoWeather
        /\ weather_got.data =
              IF FoundRecord /\ weather_got.found.age < OneHour THEN weather_got.found.rec
              ELSE IF weather_got.answer # NoWeather THEN weather_got.answer
              ELSE Placeholder
        /\ Placeholder.current.condition = "Unavailable"

\* an expired cache of a record fetched earlier, the fetch fails: the placeholder
C24_Witness ==
    /\ Asked /\ FoundRecord
    /\ weather_got.found.rec \in FetchedRecords
    /\ weather_got.found.age > OneHour
    /\ weather_got.answer = NoWeather
    /\ weather_got.data = Placeholder

(***************************************************************************)
(* C25.  fetch_next_image walks the list fixed (and sorted) at             *)
(* construction round robin: current_index stays within the list, the k-th *)
(* call is for the file at position (k - 1) mod n and returns it, so n     *)
(* calls over n files return each file once in sorted order and call n + 1 *)
(* returns the first again; with an empty list every call returns None and *)
(* the index does not move.  (A call whose file cannot be opened raises    *)
(* after the index has moved on: it returns nothing and takes its turn.)   *)
(***************************************************************************)
NumFiles == Len(fetcher.image_files)
SortedNames(files) ==
    \A i, j \in DOMAIN files :
        i < j => \E a, b \in DOMAIN ImageFileNames :
                    a < b /\ files[i] = ImageFileNames[a] /\ files[j] = ImageFileNames[b]
AllReturned == \A k \in DOMAIN fetched_images : fetched_images[k].st = "ok"

C25_RoundRobinOverSortedFiles ==
    /\ SortedNames(fetcher.image_files)
    /\ IF NumFiles = 0
       THEN /\ fetcher.current_index = 0
            /\ \A k \in DOMAIN fetched_images :
                fetched_images[k].st = "ok" /\ fetched_images[k].image = NoImage
       ELSE /\ fetcher.current_index \in 0..(NumFiles - 1)
            /\ fetcher.current_index = Len(fetched_images) % NumFiles
            /\ \A k \in DOMAIN fetched_images :
                fetched_images[k].st = "ok" =>
                    fetched_images[k].image.name = fetcher.image_files[((k - 1) % NumFiles) + 1]
            /\ (AllReturned /\ Len(fetched_images) > NumFiles) =>
                /\ [k \in 1..NumFiles |-> fetched_images[k].image.name] = fetcher.image_files
                /\ fetched_images[NumFiles + 1].image.name = fetcher.image_files[1]

\* two files, three calls: the first, the second, the first again
C25_Witness ==
    /\ NumFiles = 2
    /\ Len(fetched_images) = 3
    /\ AllReturned
    /\ fetched_images[1].image.name = fetcher.image_files[1]
    /\ fetched_images[2].image.name = fetcher.image_files[2]
    /\ fetched_images[3].image.name = fetcher.image_files[1]
    /\ fetcher.current_index = 1

(***************************************************************************)
(* C26.  On a tick with content display_image first composes the frame,    *)
(* then stores the debug copy, then sends the frame to the panel: each     *)
(* step happens only after the one before it, the frame is composed once   *)
(* and the panel is called at most once (a frame is never sent twice, and  *)
(* every tick composes its own).  When nothing fails the tick is exactly   *)
(* compose, store (with its pruning), send.                                *)
(***************************************************************************)
IsCompose(event) == event = "compose"
IsStore(event) == event \in {"store", "store_failed"}
EventsBefore(k) == {tick.display.events[j] : j \in 1..(k - 1)}

C26_ComposeStoreSendOncePerTick ==
    (tick.called_display /\ tick.content_type # "None") =>
        /\ Len(SelectSeq(tick.display.events, IsCompose)) = 1
        /\ Len(SelectSeq(tick.display.events, IsSinkCall)) <= 1
        /\ \A k \in DOMAIN tick.display.events :
            /\ IsStore(tick.display.events[k]) => "compose" \in EventsBefore(k)
            /\ IsSinkCall(tick.display.events[k]) => "store" \in EventsBefore(k)
        /\ (~ArchiveFailed /\ "send_failed" \notin TickEvents) =>
            /\ tick.display.events = <<"compose", "store", "cleanup", "send">>
            /\ tick.display.sent

\* a news tick on which nothing failed
C26_Witness ==
    /\ TickDone /\ tick.mode = "news" /\ tick.content_type = "news"
    /\ tick.display.events = <<"compose", "store", "cleanup", "send">>
    /\ tick.display.sent

(***************************************************************************)
(* C27.  With weather enabled an iteration of the loop changes the         *)
(* retained record only if it is a weather tick that returned a weather    *)
(* image together with its record (which then is the retained one); a      *)
(* weather tick without content (placeholder, fewer than 3 forecast        *)
(* entries) leaves it as it was, whatever its age.  With weather disabled  *)
(* every tick hands None to display_image for the header.                  *)
(***************************************************************************)
C27_Step ==
    /\ (pc = "loop" /\ ENABLE_WEATHER /\ weather_data' # weather_data) =>
        /\ tick'.mode = "weather"
        /\ tick'.content_type = "weather"
        /\ tick'.len = 3
        /\ weather_data' = last_weather'
        /\ weather_data'.forecast >= 3
    /\ (pc = "loop" /\ tick'.mode = "weather" /\ tick'.content_type = "None") =>
        /\ weather_data' = weather_data
        /\ tick'.called_display => tick'.display.header_arg = weather_data
    /\ (pc = "loop" /\ ~ENABLE_WEATHER /\ tick'.called_display) =>
        /\ tick'.display.header_arg = NoWeather
        /\ weather_data' = NoWeather

C27_RetainedWeatherReplacedOnlyWithImage == [][C27_Step]_vars

\* a weather tick whose fetch gave two forecast days: no image, and the header
\* still shows the record of an earlier weather tick
C27_Witness ==
    /\ TickDone /\ tick.mode = "weather" /\ tick.content_type = "None"
    /\ cache.rec = WeatherRecord("dict", "Sunny", "68", 2)
    /\ weather_data = WeatherRecord("dict", "Blizzard", "68", 3)
    /\ tick.display.header_arg = weather_data

====
